---- MODULE Spec2Model ----
(***************************************************************************)
(* Soft red-list watermarking service (watermark.py).                      *)
(*                                                                         *)
(* Representation of the Python values:                                    *)
(*   - a str is the sequence of its Unicode code points, bytes are the     *)
(*     sequence of byte values; str.encode() is UTF-8 (Encode);            *)
(*   - a dict[str, float] request body is the sequence of its              *)
(*     <<key, value>> items in insertion order (keys distinct);            *)
(*   - floats are exact rationals with fixed denominators: gamma = g/4     *)
(*     (GammaDen), delta a whole number, weights in units of 1/ExpDen of   *)
(*     the probability unit, exp(delta) rounded to 1/ExpDen.  Rounding,    *)
(*     underflow and NaN of IEEE doubles are not represented;              *)
(*   - a raised exception is the name of its Python class in resp.err.     *)
(***************************************************************************)
EXTENDS Integers, Sequences, FiniteSets, TLC

VARIABLES
    MODEL_KEYS,   \* watermark.py:16  model_id -> {vocab, secret, gamma, delta}
    resp,         \* the last request served and its outcome
    chain,        \* a caller's generation loop: the tokens fed back so far
    threads,      \* worker threads of the concurrent view: pc and locals
    registered    \* concurrent view: the configs register calls have stored

vars == <<MODEL_KEYS, resp, chain, threads, registered>>

---------------------------------------------------------------------------
(* Inputs *)

GammaDen == 4
ExpDen == 1000
U16Scale == 65536
DefaultGamma == 2
DefaultDelta == 2
ExpMaxArg == 709

EmptyStr == <<>>
TokX == <<120>>
TokE == <<233>>
SecretK1 == <<107, 49>>
SecretK2 == <<107, 50>>

ModelIds == {"m1", "m2"}
Toks == {TokX, TokE}
Prevs == {EmptyStr} \cup Toks
VocabXE == <<TokX, TokE>>

MaxTokens == 2

Probs == {-1, 0, 1, 2}

\* dict items in insertion order, keys distinct
Distributions ==
    {<<>>}
    \cup {<<(<<t, p>>)>> : t \in Toks, p \in Probs}
    \cup {<<(<<TokX, p>>), (<<TokE, q>>)>> : p \in Probs, q \in Probs}
    \cup {<<(<<TokE, 1>>), (<<TokX, -1>>)>>, <<(<<TokE, 2>>), (<<TokX, 1>>)>>}

RECURSIVE SeqsUpTo(_, _)
SeqsUpTo(S, n) ==
    IF n = 0 THEN {<<>>}
    ELSE LET shorter == SeqsUpTo(S, n - 1)
         IN shorter \cup {Append(s, x) : s \in {q \in shorter : Len(q) = n - 1}, x \in S}

TokenSeqs == SeqsUpTo(Toks, MaxTokens)

RegArgs(vocab, secret, gamma, delta) ==
    [vocab |-> vocab, secret |-> secret, gamma |-> gamma, delta |-> delta]

\* bodies of POST /register without the model_id
RegisterBodies ==
    { RegArgs(VocabXE, SecretK1, DefaultGamma, DefaultDelta),
      RegArgs(VocabXE, SecretK2, DefaultGamma, 0),
      RegArgs(<<>>, SecretK2, GammaDen, 0),
      RegArgs(VocabXE, SecretK1, 0, DefaultDelta),
      RegArgs(VocabXE, EmptyStr, DefaultGamma, DefaultDelta),
      RegArgs(VocabXE, SecretK1, 6, DefaultDelta),
      RegArgs(VocabXE, SecretK1, -2, DefaultDelta),
      RegArgs(VocabXE, SecretK1, DefaultGamma, -1),
      RegArgs(VocabXE, SecretK1, DefaultGamma, 1000) }

---------------------------------------------------------------------------
(* str.encode() and the keyed hash *)

Utf8(cp) ==
    IF cp < 128 THEN <<cp>> ELSE <<192 + (cp \div 64), 128 + (cp % 64)>>

RECURSIVE Encode(_)
Encode(s) == IF s = <<>> THEN <<>> ELSE Utf8(Head(s)) \o Encode(Tail(s))

\* int.from_bytes(hmac.new(key, msg, sha256).digest()[:2], "big"): the top 16
\* bits of the 64-bit prefix, tabulated for the keys and messages above.
HmacTop16(key, msg) ==
    CASE key = <<>> /\ msg = <<120>> -> 19644
    [] key = <<>> /\ msg = <<195, 169>> -> 58035
    [] key = <<>> /\ msg = <<120, 120>> -> 45258
    [] key = <<>> /\ msg = <<120, 195, 169>> -> 45631
    [] key = <<>> /\ msg = <<195, 169, 120>> -> 33306
    [] key = <<>> /\ msg = <<195, 169, 195, 169>> -> 27885
    [] key = <<107, 49>> /\ msg = <<120>> -> 1012
    [] key = <<107, 49>> /\ msg = <<195, 169>> -> 52651
    [] key = <<107, 49>> /\ msg = <<120, 120>> -> 28909
    [] key = <<107, 49>> /\ msg = <<120, 195, 169>> -> 30594
    [] key = <<107, 49>> /\ msg = <<195, 169, 120>> -> 11749
    [] key = <<107, 49>> /\ msg = <<195, 169, 195, 169>> -> 41158
    [] key = <<107, 50>> /\ msg = <<120>> -> 47053
    [] key = <<107, 50>> /\ msg = <<195, 169>> -> 60514
    [] key = <<107, 50>> /\ msg = <<120, 120>> -> 14782
    [] key = <<107, 50>> /\ msg = <<120, 195, 169>> -> 60347
    [] key = <<107, 50>> /\ msg = <<195, 169, 120>> -> 5490
    [] key = <<107, 50>> /\ msg = <<195, 169, 195, 169>> -> 56532

\* u < gamma with u = prefix / 2**64 and gamma = g/GammaDen: g * 2**64 / GammaDen
\* is a multiple of 2**48, so the top 16 bits decide the comparison.
\* `secret` is the stored bytes key.
IsGreen(secret, prev_token, token, gamma) ==
    HmacTop16(secret, Encode(prev_token \o token)) * GammaDen < gamma * U16Scale

---------------------------------------------------------------------------
(* KeyStore *)

\* the dict display of lines 22-27, evaluated before the store
BuildConfig(vocab, secret, gamma, delta) ==
    [vocab |-> vocab, secret |-> Encode(secret), gamma |-> gamma, delta |-> delta]

\* a store that rebinds the table to a dict holding the one entry
StoreConfigFresh(keys, model_id, config) ==
    [m \in {model_id} |-> config]

\* MODEL_KEYS[model_id] = config: one subscript store
StoreConfig(keys, model_id, config) ==
    [m \in (DOMAIN keys) \cup {model_id} |->
            IF m = model_id THEN config ELSE keys[m]]

register_model(keys, model_id, vocab, secret, gamma, delta) ==
    StoreConfig(keys, model_id, BuildConfig(vocab, secret, gamma, delta))

\* RegisterRequest: Field(ge=0.0, le=1.0), Field(ge=0.0); secret is any str
RegisterRequestValid(body) ==
    /\ 0 <= body.gamma /\ body.gamma <= GammaDen
    /\ 0 <= body.delta

---------------------------------------------------------------------------
(* Outcomes: the value returned or the exception raised, and what the call
   computed on the way (trace) *)

NoOut == [kind |-> "none"]
Raised(op, req, exc, trace) ==
    [op |-> op, req |-> req, err |-> exc, out |-> NoOut, trace |-> trace]
Returned(op, req, out, trace) ==
    [op |-> op, req |-> req, err |-> "", out |-> out, trace |-> trace]

---------------------------------------------------------------------------
(* BiasedSampler *)

ExpOverflows(delta) == delta > ExpMaxArg

\* the boost taken to be delta itself, without the exponential
AlphaLinear(delta) == delta * ExpDen

\* math.exp(delta) in units of 1/ExpDen
Alpha(delta) ==
    CASE delta = 0 -> ExpDen
    [] delta = 1 -> 2718
    [] delta = 2 -> 7389
    [] delta = -1 -> 368

\* the hard scheme: a red token gets no weight
WeightHard(p, green, alpha) == IF green THEN p * alpha ELSE 0

\* w = p * alpha if green else p, in units of 1/ExpDen
Weight(p, green, alpha) == IF green THEN p * alpha ELSE p * ExpDen

\* the first loop: boosted[tok] = w, as items [tok, p, green, w]
Boosted(secret, gamma, delta, distribution, prev_token) ==
    [i \in 1..Len(distribution) |->
        LET tok == distribution[i][1]
            p == distribution[i][2]
            green == IsGreen(secret, prev_token, tok, gamma)
        IN [tok |-> tok, p |-> p, green |-> green,
            w |-> Weight(p, green, Alpha(delta))]]

RECURSIVE SumW(_)
SumW(items) == IF items = <<>> THEN 0 ELSE Head(items).w + SumW(Tail(items))

Sign(n) == IF n < 0 THEN -1 ELSE IF n > 0 THEN 1 ELSE 0

\* boosted[tok] /= total: the quotient w/total as the numerator over |total|
Normalized(items, total) ==
    [i \in 1..Len(items) |-> items[i].w * Sign(total)]

\* itertools.accumulate
RECURSIVE Accumulate(_)
Accumulate(ws) ==
    IF ws = <<>> THEN <<>>
    ELSE LET front == Accumulate(SubSeq(ws, 1, Len(ws) - 1))
         IN Append(front, (IF front = <<>> THEN 0 ELSE front[Len(front)]) + ws[Len(ws)])

\* bisect.bisect_right(a, x, lo, hi), 0-based lo and hi, a indexed from 1
RECURSIVE BisectRight(_, _, _, _)
BisectRight(a, x, lo, hi) ==
    IF lo < hi
    THEN LET mid == (lo + hi) \div 2
         IN IF x < a[mid + 1] THEN BisectRight(a, x, lo, mid)
            ELSE BisectRight(a, x, mid + 1, hi)
    ELSE lo

\* random.choices(tokens, weights, k=1)[0]: the indices (from 1) it can return.
\* The weights are numerators over a common positive denominator; random() *
\* total ranges over [0, total), and only its order against the cumulative
\* weights matters, so one point per interval is drawn.
Choices(weights) ==
    LET cum == Accumulate(weights)
        total == cum[Len(cum)]
        points == {0} \cup {cum[i] : i \in 1..Len(cum)}
    IN {BisectRight(cum, x, 0, Len(cum) - 1) + 1 :
            x \in {y \in points : 0 <= y /\ y < total}}

\* lines 49-62 with the config fields already read into locals
SelectWith(req, secret, gamma, delta) ==
    LET none == [kind |-> "select", secret |-> secret, gamma |-> gamma,
                 delta |-> delta, boosted |-> <<>>, total |-> 0]
    IN IF ExpOverflows(delta) THEN {Raised("watermark", req, "OverflowError", none)}
       ELSE
       LET items == Boosted(secret, gamma, delta, req.distribution, req.prev_token)
           total == SumW(items)
           trace == [none EXCEPT !.boosted = items, !.total = total]
       IN IF Len(items) = 0 THEN {Raised("watermark", req, "ValueError", trace)}
          ELSE IF total = 0 THEN {Raised("watermark", req, "ZeroDivisionError", trace)}
          ELSE {Returned("watermark", req, items[i].tok, trace) :
                  i \in Choices(Normalized(items, total))}

\* select_watermarked_token: every outcome the call can have
select_watermarked_token(keys, req) ==
    IF req.model_id \notin DOMAIN keys
    THEN {Raised("watermark", req, "KeyError", NoOut)}
    ELSE LET model == keys[req.model_id]
         IN SelectWith(req, model.secret, model.gamma, model.delta)

---------------------------------------------------------------------------
(* Detector *)

\* prev = tokens[i-1] without the i > 0 test: tokens[-1] is the last token
DetectPrevWrap(tokens, i) == IF i > 1 THEN tokens[i - 1] ELSE tokens[Len(tokens)]

\* prev = tokens[i-1] if i > 0 else "" (i from 1 here)
DetectPrev(tokens, i) == IF i > 1 THEN tokens[i - 1] ELSE EmptyStr

\* the oracle calls of the counting loop, in order
DetectQueries(secret, gamma, tokens) ==
    [i \in 1..Len(tokens) |->
        LET prev == DetectPrev(tokens, i)
        IN [secret |-> secret, prev |-> prev, tok |-> tokens[i], gamma |-> gamma,
            green |-> IsGreen(secret, prev, tokens[i], gamma)]]

CountGreen(queries) == Cardinality({i \in 1..Len(queries) : queries[i].green})

\* a z-score num / sqrt(rad); 0.0 is ZeroScore
Score(num, rad) == [kind |-> "score", num |-> num, rad |-> rad]
ZeroScore == Score(0, 1)

DetectTrace(queries) ==
    [kind |-> "detect", count |-> CountGreen(queries), queries |-> queries]

\* the division without the T == 0 test before it
DetectResultNoEmptyTest(req, gamma, queries) ==
    LET T == Len(req.tokens)
        rad == T * gamma * (GammaDen - gamma)
    IN IF rad < 0 THEN Raised("detect", req, "ValueError", DetectTrace(queries))
       ELSE IF rad = 0 THEN Raised("detect", req, "ZeroDivisionError", DetectTrace(queries))
       ELSE Returned("detect", req,
                     Score(GammaDen * CountGreen(queries) - gamma * T, rad),
                     DetectTrace(queries))

\* a division that yields an infinity or a NaN (rad = 0) instead of raising
DetectResultNonFinite(req, gamma, queries) ==
    LET T == Len(req.tokens)
        rad == T * gamma * (GammaDen - gamma)
    IN IF T = 0 THEN Returned("detect", req, ZeroScore, DetectTrace(queries))
       ELSE IF rad < 0 THEN Raised("detect", req, "ValueError", DetectTrace(queries))
       ELSE Returned("detect", req,
                     Score(GammaDen * CountGreen(queries) - gamma * T, rad),
                     DetectTrace(queries))

\* lines 80-82: return 0.0 if T == 0, else (count - gamma*T) /
\* sqrt(T*gamma*(1-gamma)) = (4*count - g*T) / sqrt(T*g*(4-g)) for gamma = g/4;
\* math.sqrt of a negative raises ValueError, a float division by 0.0
\* raises ZeroDivisionError
DetectResult(req, gamma, queries) ==
    LET T == Len(req.tokens)
        count == CountGreen(queries)
        rad == T * gamma * (GammaDen - gamma)
        trace == DetectTrace(queries)
    IN IF T = 0 THEN Returned("detect", req, ZeroScore, trace)
       ELSE IF rad < 0 THEN Raised("detect", req, "ValueError", trace)
       ELSE IF rad = 0 THEN Raised("detect", req, "ZeroDivisionError", trace)
       ELSE Returned("detect", req, Score(GammaDen * count - gamma * T, rad), trace)

\* lines 70-82 with the config fields already read into locals
DetectWith(req, secret, gamma) ==
    DetectResult(req, gamma, DetectQueries(secret, gamma, req.tokens))

\* a lookup with a default: an unknown model_id scores 0.0
detect_watermark_default(keys, req) ==
    IF req.model_id \notin DOMAIN keys
    THEN Returned("detect", req, ZeroScore, NoOut)
    ELSE DetectWith(req, keys[req.model_id].secret, keys[req.model_id].gamma)

detect_watermark(keys, req) ==
    IF req.model_id \notin DOMAIN keys THEN Raised("detect", req, "KeyError", NoOut)
    ELSE LET model == keys[req.model_id]
         IN DetectWith(req, model.secret, model.gamma)

---------------------------------------------------------------------------
(* The service, one request at a time *)

NoResp == [op |-> "none", req |-> NoOut, err |-> "", out |-> NoOut, trace |-> NoOut]
NoChain == [model_id |-> "", tokens |-> <<>>, queries |-> <<>>]
NoStores == [all |-> {}, last |-> <<>>]

EmptyKeys == <<>>

Init ==
    /\ MODEL_KEYS = EmptyKeys
    /\ resp = NoResp
    /\ chain = NoChain
    /\ threads = <<>>
    /\ registered = NoStores

\* POST /register
Register(model_id, body) ==
    LET req == [model_id |-> model_id, body |-> body]
    IN /\ IF RegisterRequestValid(body)
          THEN /\ MODEL_KEYS' = register_model(MODEL_KEYS, model_id, body.vocab,
                                               body.secret, body.gamma, body.delta)
               /\ resp' = Returned("register", req, [kind |-> "registered"], NoOut)
          ELSE /\ MODEL_KEYS' = MODEL_KEYS
               /\ resp' = Raised("register", req, "ValidationError", NoOut)
       /\ UNCHANGED <<chain, threads, registered>>

\* register_model called directly
RegisterModel(model_id, body) ==
    LET req == [model_id |-> model_id, body |-> body]
    IN /\ MODEL_KEYS' = register_model(MODEL_KEYS, model_id, body.vocab,
                                       body.secret, body.gamma, body.delta)
       /\ resp' = Returned("register_model", req, NoOut, NoOut)
       /\ UNCHANGED <<chain, threads, registered>>

\* POST /watermark
WatermarkToken(model_id, distribution, prev_token) ==
    LET req == [model_id |-> model_id, distribution |-> distribution,
                prev_token |-> prev_token]
    IN /\ resp' \in select_watermarked_token(MODEL_KEYS, req)
       /\ UNCHANGED <<MODEL_KEYS, chain, threads, registered>>

\* POST /detect
Detect(model_id, tokens) ==
    LET req == [model_id |-> model_id, tokens |-> tokens]
    IN /\ resp' = detect_watermark(MODEL_KEYS, req)
       /\ UNCHANGED <<MODEL_KEYS, chain, threads, registered>>

Next ==
    \/ \E m \in ModelIds, b \in RegisterBodies : Register(m, b)
    \/ \E m \in ModelIds, b \in RegisterBodies : RegisterModel(m, b)
    \/ \E m \in ModelIds, d \in Distributions, p \in Prevs : WatermarkToken(m, d, p)
    \/ \E m \in ModelIds, t \in TokenSeqs : Detect(m, t)

Spec == Init /\ [][Next]_vars

---------------------------------------------------------------------------
(* A generation loop: the caller feeds each returned token back as
   prev_token, starting from "", then has the tokens detected *)

MaxChain == 3

GenBodies ==
    {b \in RegisterBodies : RegisterRequestValid(b) /\ ~ExpOverflows(b.delta)}

GenDistributions ==
    {d \in Distributions : Len(d) = 2 /\ d[1][2] > 0 /\ d[2][2] > 0}

\* the oracle call select_watermarked_token made for the token it returned
SamplerQuery(r) ==
    LET i == CHOOSE k \in 1..Len(r.trace.boosted) : r.trace.boosted[k].tok = r.out
    IN [secret |-> r.trace.secret, prev |-> r.req.prev_token, tok |-> r.out,
        gamma |-> r.trace.gamma, green |-> r.trace.boosted[i].green]

Extend(c, model_id, r) ==
    IF r.err = ""
    THEN [model_id |-> model_id, tokens |-> Append(c.tokens, r.out),
          queries |-> Append(c.queries, SamplerQuery(r))]
    ELSE NoChain

\* POST /register; a chain of the re-registered model ends
GenRegister(model_id, body) ==
    LET req == [model_id |-> model_id, body |-> body]
    IN /\ IF RegisterRequestValid(body)
          THEN /\ MODEL_KEYS' = register_model(MODEL_KEYS, model_id, body.vocab,
                                               body.secret, body.gamma, body.delta)
               /\ resp' = Returned("register", req, [kind |-> "registered"], NoOut)
          ELSE /\ MODEL_KEYS' = MODEL_KEYS
               /\ resp' = Raised("register", req, "ValidationError", NoOut)
       /\ chain' = IF model_id = chain.model_id THEN NoChain ELSE chain
       /\ UNCHANGED <<threads, registered>>

\* first token: POST /watermark with prev_token = ""
GenStart(model_id, distribution) ==
    LET req == [model_id |-> model_id, distribution |-> distribution,
                prev_token |-> EmptyStr]
    IN /\ resp' \in select_watermarked_token(MODEL_KEYS, req)
       /\ chain' = Extend(NoChain, model_id, resp')
       /\ UNCHANGED <<MODEL_KEYS, threads, registered>>

\* next token: POST /watermark with prev_token = the token returned last
GenContinue(distribution) ==
    /\ chain.tokens # <<>>
    /\ Len(chain.tokens) < MaxChain
    /\ LET req == [model_id |-> chain.model_id, distribution |-> distribution,
                   prev_token |-> chain.tokens[Len(chain.tokens)]]
       IN /\ resp' \in select_watermarked_token(MODEL_KEYS, req)
          /\ chain' = Extend(chain, chain.model_id, resp')
    /\ UNCHANGED <<MODEL_KEYS, threads, registered>>

\* POST /detect on the tokens generated so far
GenDetect ==
    /\ chain.tokens # <<>>
    /\ resp' = detect_watermark(MODEL_KEYS,
                                [model_id |-> chain.model_id, tokens |-> chain.tokens])
    /\ UNCHANGED <<MODEL_KEYS, chain, threads, registered>>

GenNext ==
    \/ \E m \in ModelIds, b \in GenBodies : GenRegister(m, b)
    \/ \E m \in ModelIds, d \in GenDistributions : GenStart(m, d)
    \/ \E d \in GenDistributions : GenContinue(d)
    \/ GenDetect

GenSpec == Init /\ [][GenNext]_vars

---------------------------------------------------------------------------
(* The handlers as the worker threads run them: each read of MODEL_KEYS or
   of a field of the fetched dict, and the store, is a step of its own *)

NumThreads == 2
Threads == 1..NumThreads

ConcBodies ==
    { RegArgs(VocabXE, SecretK1, DefaultGamma, DefaultDelta),
      RegArgs(<<>>, SecretK2, GammaDen, 0),
      RegArgs(VocabXE, SecretK1, DefaultGamma, -1) }

ConcDistribution == <<(<<TokX, 1>>), (<<TokE, 1>>)>>
ConcTokens == <<TokX>>

IdleThread ==
    [pc |-> "idle", op |-> "none", req |-> NoOut, model |-> NoOut,
     locals |-> <<>>, result |-> NoOut]

\* a thread re-reading MODEL_KEYS[model_id] for each field
ModelOfLookup(th) == MODEL_KEYS[th.req.model_id]

\* the dict a reading thread works on: the one it fetched at line 44 / 69
ModelOf(th) == th.model

ReadField(th, f) == [th EXCEPT !.locals = th.locals @@ (f :> ModelOf(th)[f])]

ConcInit ==
    /\ MODEL_KEYS = EmptyKeys
    /\ resp = NoResp
    /\ chain = NoChain
    /\ threads = [t \in Threads |-> IdleThread]
    /\ registered = NoStores

Step(t, th) ==
    /\ threads' = [threads EXCEPT ![t] = th]
    /\ UNCHANGED <<resp, chain>>

\* POST /register arrives: validation, then the config dict is built
CallRegister(t, model_id, body) ==
    LET req == [model_id |-> model_id, body |-> body]
    IN /\ threads[t].pc = "idle"
       /\ IF RegisterRequestValid(body)
          THEN Step(t, [IdleThread EXCEPT !.pc = "store", !.op = "register", !.req = req,
                            !.model = BuildConfig(body.vocab, body.secret,
                                                  body.gamma, body.delta)])
          ELSE Step(t, [IdleThread EXCEPT !.pc = "done", !.op = "register", !.req = req,
                            !.result = Raised("register", req, "ValidationError", NoOut)])
       /\ UNCHANGED <<MODEL_KEYS, registered>>

\* MODEL_KEYS[model_id] = {...}
RegStore(t) ==
    LET th == threads[t]
    IN /\ th.pc = "store"
       /\ MODEL_KEYS' = StoreConfig(MODEL_KEYS, th.req.model_id, th.model)
       /\ registered' =
            [all |-> registered.all \cup {<<th.req.model_id, th.model>>},
             last |-> (th.req.model_id :> th.req.body) @@ registered.last]
       /\ Step(t, [th EXCEPT !.pc = "done",
                      !.result = Returned("register", th.req,
                                          [kind |-> "registered"], NoOut)])

\* POST /watermark arrives
CallWatermark(t, model_id) ==
    /\ threads[t].pc = "idle"
    /\ Step(t, [IdleThread EXCEPT !.pc = "lookup", !.op = "watermark",
                    !.req = [model_id |-> model_id,
                             distribution |-> ConcDistribution,
                             prev_token |-> EmptyStr]])
    /\ UNCHANGED <<MODEL_KEYS, registered>>

\* POST /detect arrives
CallDetect(t, model_id) ==
    /\ threads[t].pc = "idle"
    /\ Step(t, [IdleThread EXCEPT !.pc = "lookup", !.op = "detect",
                    !.req = [model_id |-> model_id, tokens |-> ConcTokens]])
    /\ UNCHANGED <<MODEL_KEYS, registered>>

\* model = MODEL_KEYS[model_id]
Lookup(t) ==
    LET th == threads[t]
    IN /\ th.pc = "lookup"
       /\ IF th.req.model_id \in DOMAIN MODEL_KEYS
          THEN Step(t, [th EXCEPT !.pc = "secret", !.model = MODEL_KEYS[th.req.model_id]])
          ELSE Step(t, [th EXCEPT !.pc = "done",
                           !.result = Raised(th.op, th.req, "KeyError", NoOut)])
       /\ UNCHANGED <<MODEL_KEYS, registered>>

\* secret = model["secret"]
ReadSecret(t) ==
    /\ threads[t].pc = "secret"
    /\ Step(t, [ReadField(threads[t], "secret") EXCEPT !.pc = "gamma"])
    /\ UNCHANGED <<MODEL_KEYS, registered>>

\* gamma = model["gamma"]
ReadGamma(t) ==
    /\ threads[t].pc = "gamma"
    /\ Step(t, [ReadField(threads[t], "gamma") EXCEPT
                    !.pc = IF threads[t].op = "watermark" THEN "delta" ELSE "compute"])
    /\ UNCHANGED <<MODEL_KEYS, registered>>

\* delta = model["delta"]
ReadDelta(t) ==
    /\ threads[t].pc = "delta"
    /\ Step(t, [ReadField(threads[t], "delta") EXCEPT !.pc = "compute"])
    /\ UNCHANGED <<MODEL_KEYS, registered>>

\* the rest of the handler, on the locals
Compute(t) ==
    LET th == threads[t]
    IN /\ th.pc = "compute"
       /\ \E r \in IF th.op = "watermark"
                   THEN SelectWith(th.req, th.locals.secret, th.locals.gamma,
                                   th.locals.delta)
                   ELSE {DetectWith(th.req, th.locals.secret, th.locals.gamma)} :
            Step(t, [th EXCEPT !.pc = "done", !.result = r])
       /\ UNCHANGED <<MODEL_KEYS, registered>>

\* the response is sent
Return(t) ==
    /\ threads[t].pc = "done"
    /\ Step(t, IdleThread)
    /\ UNCHANGED <<MODEL_KEYS, registered>>

ConcNext ==
    \E t \in Threads :
        \/ \E m \in ModelIds, b \in ConcBodies : CallRegister(t, m, b)
        \/ RegStore(t)
        \/ \E m \in ModelIds : CallWatermark(t, m)
        \/ \E m \in ModelIds : CallDetect(t, m)
        \/ Lookup(t)
        \/ ReadSecret(t)
        \/ ReadGamma(t)
        \/ ReadDelta(t)
        \/ Compute(t)
        \/ Return(t)

ConcSpec == ConcInit /\ [][ConcNext]_vars

---------------------------------------------------------------------------
(* Properties of the service *)

Registered(m) == m \in DOMAIN MODEL_KEYS
IsReadOp == resp.op \in {"watermark", "detect"}

\* every constraint the KeyStore's contract puts on a config
ConstraintsHold(body) ==
    /\ 0 <= body.gamma /\ body.gamma <= GammaDen
    /\ 0 <= body.delta
    /\ body.secret # EmptyStr

ConfigOf(body) ==
    [vocab |-> body.vocab, secret |-> Encode(body.secret),
     gamma |-> body.gamma, delta |-> body.delta]

\* a stored config that satisfies every constraint and whose exp(delta) is finite
WellFormed(config) ==
    /\ 0 <= config.gamma /\ config.gamma <= GammaDen
    /\ 0 <= config.delta /\ ~ExpOverflows(config.delta)
    /\ config.secret # <<>>

RECURSIVE Mass(_)
Mass(distribution) ==
    IF distribution = <<>> THEN 0 ELSE Head(distribution)[2] + Mass(Tail(distribution))

\* C1: POST /register with gamma outside [0,1], delta < 0 or an empty secret
\* signals a ValidationError and leaves MODEL_KEYS as it was; only a request
\* meeting the three constraints installs its config.
C1_RegisterValidatesArguments ==
    /\ [](resp.op = "register" =>
            IF ConstraintsHold(resp.req.body)
            THEN /\ resp.err = ""
                 /\ Registered(resp.req.model_id)
                 /\ MODEL_KEYS[resp.req.model_id] = ConfigOf(resp.req.body)
            ELSE resp.err = "ValidationError")
    /\ [][(resp'.op = "register" /\ ~ConstraintsHold(resp'.req.body))
            => MODEL_KEYS' = MODEL_KEYS]_vars

\* C3 (as amended): watermark and detect raise KeyError (the NotFoundError)
\* exactly when the model_id is absent from MODEL_KEYS, whatever the
\* distribution, prev_token or token sequence; the failing call returns nothing
\* and leaves MODEL_KEYS as it was; once the model_id is registered the same
\* call no longer raises KeyError.
C3_NotFoundIffAbsent ==
    /\ [](IsReadOp =>
            /\ (resp.err = "KeyError") <=> ~Registered(resp.req.model_id)
            /\ resp.err = "KeyError" => resp.out = NoOut /\ resp.trace = NoOut)
    /\ [][(resp'.op \in {"watermark", "detect"} /\ resp'.err = "KeyError")
            => MODEL_KEYS' = MODEL_KEYS]_vars

\* C3 witness: a call on an absent model_id failed with KeyError while the
\* other model_id was registered, for a non-empty input.
C3_Witness ==
    /\ resp.op = "detect" /\ resp.err = "KeyError"
    /\ resp.req.tokens # <<>>
    /\ DOMAIN MODEL_KEYS = ModelIds \ {resp.req.model_id}

\* C3 (original): watermark and detect on an absent model_id raise KeyError,
\* return nothing and leave MODEL_KEYS as it was; once the model_id is
\* registered the same calls succeed.  Every call fails while the model_id is
\* absent, so "the same calls" are all calls; the last clause is stated for
\* configs meeting every registration constraint.
C3_CallsSucceedOnceRegistered ==
    /\ [](IsReadOp =>
            IF Registered(resp.req.model_id)
            THEN WellFormed(MODEL_KEYS[resp.req.model_id]) => resp.err = ""
            ELSE resp.err = "KeyError" /\ resp.out = NoOut)
    /\ [][(resp'.op \in {"watermark", "detect"} /\ resp'.err = "KeyError")
            => MODEL_KEYS' = MODEL_KEYS]_vars

\* C4: on a registered model (with a config meeting every registration
\* constraint) a watermark call whose distribution is empty or has total
\* probability mass <= 0 signals an error and returns no token.
C4_MalformedDistributionRejected ==
    (/\ resp.op = "watermark" /\ Registered(resp.req.model_id)
     /\ WellFormed(MODEL_KEYS[resp.req.model_id])
     /\ (resp.req.distribution = <<>> \/ Mass(resp.req.distribution) <= 0))
    => resp.err # "" /\ resp.out = NoOut

\* Python's ArithmeticError and its subclasses
ArithmeticErrors ==
    {"ArithmeticError", "ZeroDivisionError", "OverflowError", "FloatingPointError"}

ZeroVariance(gamma) == gamma = 0 \/ gamma = GammaDen

\* C5: for a stored config with gamma exactly 0 or exactly 1, detect on every
\* non-empty token sequence raises an ArithmeticError (ZeroDivisionError) and
\* returns no score.
C5_ZeroVarianceGammaRaises ==
    (/\ resp.op = "detect" /\ Registered(resp.req.model_id)
     /\ ZeroVariance(MODEL_KEYS[resp.req.model_id].gamma)
     /\ resp.req.tokens # <<>>)
    => resp.err \in ArithmeticErrors /\ resp.out = NoOut

\* C5 witness: detect raised ZeroDivisionError on a full-length sequence for a
\* model registered with gamma = 1.
C5_Witness ==
    /\ resp.op = "detect" /\ resp.err = "ZeroDivisionError"
    /\ Len(resp.req.tokens) = MaxTokens
    /\ MODEL_KEYS[resp.req.model_id].gamma = GammaDen

\* C6: detect on an empty token sequence returns exactly 0.0 for every
\* registered model, whatever its secret, gamma and delta, raising nothing.
C6_EmptySequenceScoresZero ==
    (resp.op = "detect" /\ Registered(resp.req.model_id) /\ resp.req.tokens = <<>>)
    => resp.err = "" /\ resp.out = ZeroScore

\* C6 witness: the empty sequence scored 0.0 under a zero-variance gamma.
C6_Witness ==
    /\ resp.op = "detect" /\ resp.req.tokens = <<>> /\ resp.out = ZeroScore
    /\ Registered(resp.req.model_id)
    /\ MODEL_KEYS[resp.req.model_id].gamma = 0

\* C7: with delta = 0 the weight of every token before normalization is its
\* input probability, and the total is the input mass, for every secret, gamma
\* and prev_token.
C7_DeltaZeroKeepsProbabilities ==
    (/\ resp.op = "watermark" /\ Registered(resp.req.model_id)
     /\ MODEL_KEYS[resp.req.model_id].delta = 0)
    => /\ Len(resp.trace.boosted) = Len(resp.req.distribution)
       /\ \A i \in 1..Len(resp.req.distribution) :
            /\ resp.trace.boosted[i].tok = resp.req.distribution[i][1]
            /\ resp.trace.boosted[i].w = resp.req.distribution[i][2] * ExpDen
       /\ resp.trace.total = Mass(resp.req.distribution) * ExpDen

\* C7 witness: under delta = 0 and 0 < gamma < 1 a token was returned from a
\* distribution holding a green and a red token of non-zero probability.
C7_Witness ==
    /\ resp.op = "watermark" /\ resp.err = ""
    /\ MODEL_KEYS[resp.req.model_id].delta = 0
    /\ MODEL_KEYS[resp.req.model_id].gamma = DefaultGamma
    /\ \E i, j \in 1..Len(resp.trace.boosted) :
            /\ resp.trace.boosted[i].green /\ resp.trace.boosted[i].p > 0
            /\ ~resp.trace.boosted[j].green /\ resp.trace.boosted[j].p > 0

\* C9: watermark and detect leave MODEL_KEYS unchanged; a register call changes
\* at most the entry of its own model_id; no step removes an entry.
C9_KeyStoreFrame ==
    [][/\ resp'.op \in {"watermark", "detect"} => MODEL_KEYS' = MODEL_KEYS
       /\ DOMAIN MODEL_KEYS \subseteq DOMAIN MODEL_KEYS'
       /\ resp'.op \in {"register", "register_model"} =>
            /\ DOMAIN MODEL_KEYS' \subseteq DOMAIN MODEL_KEYS \cup {resp'.req.model_id}
            /\ \A m \in DOMAIN MODEL_KEYS \ {resp'.req.model_id} :
                    MODEL_KEYS'[m] = MODEL_KEYS[m]]_vars

\* C9 witness: a register call has just stored one model's config while the
\* other model holds a different config.
C9_Witness ==
    /\ resp.op = "register" /\ resp.err = ""
    /\ DOMAIN MODEL_KEYS = ModelIds
    /\ MODEL_KEYS["m1"] # MODEL_KEYS["m2"]

NonNegative(distribution) ==
    \A i \in 1..Len(distribution) : distribution[i][2] >= 0

C2_RegistrationIsAtomic ==
    /\ \A t \in Threads :
            threads[t].op \in {"watermark", "detect"} /\ threads[t].model # NoOut
            => \E c \in registered.all :
                    /\ c[1] = threads[t].req.model_id
                    /\ \A f \in DOMAIN threads[t].locals :
                            threads[t].locals[f] = c[2][f]
    /\ \A m \in DOMAIN MODEL_KEYS :
            /\ m \in DOMAIN registered.last
            /\ MODEL_KEYS[m] = ConfigOf(registered.last[m])

\* C2 witness: a watermark call finished on the old config in full (secret,
\* gamma and delta) after another register call had stored a different one.
C2_Witness ==
    \E t \in Threads :
        /\ threads[t].op = "watermark" /\ threads[t].pc = "done"
        /\ threads[t].result.err = ""
        /\ DOMAIN threads[t].locals = {"secret", "gamma", "delta"}
        /\ \A f \in DOMAIN threads[t].locals :
                threads[t].locals[f] # MODEL_KEYS[threads[t].req.model_id][f]

\* C8: detect on the tokens of a generation loop makes, position by position,
\* the oracle calls (secret, prev, token, gamma) the sampler made for the tokens
\* it returned, so its green count is the number of returned tokens the sampler
\* had classified green.
C8_DetectorRepeatsSamplerQueries ==
    (/\ resp.op = "detect" /\ chain.tokens # <<>>
     /\ resp.req.model_id = chain.model_id /\ resp.req.tokens = chain.tokens)
    => /\ resp.trace.queries = chain.queries
       /\ resp.trace.count =
            Cardinality({i \in 1..Len(chain.queries) : chain.queries[i].green})

\* C8 witness: a full-length chain holding a green and a red step was detected
\* and scored.
C8_Witness ==
    /\ resp.op = "detect" /\ resp.err = ""
    /\ Len(chain.tokens) = MaxChain /\ resp.req.tokens = chain.tokens
    /\ \E i, j \in 1..Len(chain.queries) :
            chain.queries[i].green /\ ~chain.queries[j].green

====
